---- MODULE Spec2Model ----
(***************************************************************************)
(* The cross-chain privacy bridge of the repository: the Ethereum contract *)
(* PrivacyBridgeETH (Bridge.sol), the relayer (relayer.js) and the Mina    *)
(* zkApp PrivacyBridge, as they are written in src/unnamed/part_000.       *)
(*                                                                         *)
(* The relayer is one Node.js process.  Its only code is the callback of   *)
(* the Deposit subscription (lines 141-148); it keeps no job store, no     *)
(* checkpoint and no file: everything it knows lives in the locals of the  *)
(* running callback and in the key drawn at process start (line 137).      *)
(***************************************************************************)
EXTENDS Integers, Sequences, FiniteSets

\* ---------------------------------------------------------------- bounds
MaxEvents == 2        \* Deposit events the Ethereum contract emits
MaxAmount == 2        \* msg.value / amount range 0..MaxAmount
MaxHeight == 3        \* source-chain heights 0..MaxHeight
MaxCalls == 2         \* invocations of the subscription callback
MaxCrashes == 1        \* kills of the relayer process
MaxWithdraws == 2     \* withdraw transactions sent to the zkApp
MaxMinaDeposits == 2  \* accepted deposit transactions of the zkApp
NumKeys == 2          \* outcomes of PrivateKey.random()
NumUsers == 2         \* Ethereum addresses
MaxVotes == 4         \* executions of PrivateVoting.vote
NumCandidates == 3    \* candidateId values
MaxForms == 2         \* invocations of VoteForm.handleVote
NumMessages == 2      \* messages of the errors loadContract and vote throw
MaxAge == 5           \* age and minAge range over -MaxAge..MaxAge

\* The reorg safety margin of a RelayJob.  relayer.js has no such value.
requiredSourceConfirmations == 2

Users == 1..NumUsers
Amounts == 0..MaxAmount
Keys == 1..NumKeys
NoEvent == 0
Candidates == 1..NumCandidates
Messages == 1..NumMessages
Ages == -MaxAge..MaxAge

VARIABLES
  deposits,        \* Bridge.sol: mapping(address => uint256) deposits
  ethLog,          \* Deposit events emitted, with the block of each
  height,          \* current height of the source chain
  up,              \* whether the relayer process runs
  crashes,         \* number of kills of the relayer process so far
  minaPrivateKey,  \* relayer.js: const minaPrivateKey = PrivateKey.random()
  calls,           \* invocations of the Deposit callback, the running one last
  balanceHash,     \* PrivacyBridge: @state(Field) balanceHash
  withdrawCalls,   \* withdraw transactions sent to the zkApp, with their outcome
  totalVotes,      \* PrivateVoting: state.totalVotes
  voteLog,         \* PrivateVoting: candidateId of each "Vote registered" log line
  forms,           \* VoteForm: invocations of handleVote, in the order of the clicks
  status,          \* VoteForm: const [status, setStatus] = useState('')
  completions,     \* VoteForm: the invocations that called setStatus, in that order
  verifyCall       \* AgeVerification: the last call of verify and what it returned

ethVars == <<deposits, ethLog, height>>
relayerVars == <<up, crashes, minaPrivateKey, calls>>
minaVars == <<balanceHash, withdrawCalls>>
votingVars == <<totalVotes, voteLog>>
formVars == <<forms, status, completions>>
circuitVars == <<verifyCall>>
protokitVars == <<votingVars, formVars, circuitVars>>
vars == <<deposits, ethLog, height, up, crashes, minaPrivateKey, calls,
          balanceHash, withdrawCalls, totalVotes, voteLog,
          forms, status, completions, verifyCall>>

\* ------------------------------------------------- Ethereum: Bridge.sol

\* deposit() without the require of line 102.
DepositAcceptedNoRequire(value) == TRUE

\* require(msg.value > 0, "Deposit must be greater than 0")
DepositAccepted(value) == value > 0

\* deposit() that assigns (deposits[msg.sender] = msg.value) instead of adding.
EthDepositOverwrite(sender, value) ==
  /\ DepositAccepted(value)
  /\ Len(ethLog) < MaxEvents
  /\ height < MaxHeight
  /\ height' = height + 1
  /\ deposits' = [deposits EXCEPT ![sender] = value]
  /\ ethLog' = Append(ethLog, [user |-> sender, amount |-> value,
                               block |-> height + 1, removed |-> FALSE,
                               early |-> FALSE])
  /\ UNCHANGED <<relayerVars, minaVars, protokitVars>>

\* function deposit() external payable.  The transaction is mined into a new
\* block; a reverted call changes nothing and emits nothing.
EthDeposit(sender, value) ==
  /\ DepositAccepted(value)
  /\ Len(ethLog) < MaxEvents
  /\ height < MaxHeight
  /\ height' = height + 1
  /\ deposits' = [deposits EXCEPT ![sender] = @ + value]
  /\ ethLog' = Append(ethLog, [user |-> sender, amount |-> value,
                               block |-> height + 1, removed |-> FALSE,
                               early |-> FALSE])
  /\ UNCHANGED <<relayerVars, minaVars, protokitVars>>

EthDepositReverts(sender, value) ==
  /\ ~DepositAccepted(value)
  /\ UNCHANGED vars

\* A block without bridge transactions is built on the source chain.
MineBlock ==
  /\ height < MaxHeight
  /\ height' = height + 1
  /\ UNCHANGED <<deposits, ethLog, relayerVars, minaVars, protokitVars>>

\* The deposits of the blocks above `ancestor`, as the chain state holds them.
RECURSIVE RolledBack(_, _, _)
RolledBack(log, ancestor, u) ==
  IF log = <<>> THEN 0
  ELSE LET e == Head(log)
       IN (IF e.user = u /\ ~e.removed /\ e.block > ancestor THEN e.amount ELSE 0)
          + RolledBack(Tail(log), ancestor, u)

\* The source chain reorganizes: the blocks above `ancestor` are replaced by
\* empty ones, so their transactions and logs are gone from the chain.
Reorg(ancestor) ==
  /\ ancestor < height
  /\ \E i \in DOMAIN ethLog : ~ethLog[i].removed /\ ethLog[i].block > ancestor
  /\ ethLog' = [i \in DOMAIN ethLog |->
                  IF ethLog[i].block > ancestor
                  THEN [ethLog[i] EXCEPT
                          !.removed = TRUE,
                          !.early = IF ethLog[i].removed THEN @
                                    ELSE height < ethLog[i].block
                                                  + requiredSourceConfirmations]
                  ELSE ethLog[i]]
  /\ deposits' = [u \in Users |-> deposits[u] - RolledBack(ethLog, ancestor, u)]
  /\ UNCHANGED <<height, relayerVars, minaVars, protokitVars>>

\* ---------------------------------------------------- relayer: relayer.js

Running == up /\ calls # <<>> /\ calls[Len(calls)].pc \in {"l142", "l143", "l146", "l147"}
Cur == calls[Len(calls)]
SetCur(r) == calls' = [calls EXCEPT ![Len(calls)] = r]

\* A callback that is entered while an earlier invocation is still running.
InvokeReentrant(err, e) ==
  /\ up
  /\ Len(calls) < MaxCalls
  /\ calls' = Append(calls, [ev |-> e, error |-> err, pc |-> "l142",
                             user |-> 0, amount |-> 0,
                             key |-> 0, buried |-> FALSE])
  /\ UNCHANGED <<ethVars, up, crashes, minaPrivateKey, minaVars, protokitVars>>

\* web3 invokes  async (error, event) => { ... }  with an event of the log
\* (any of them, again or not) or without one, and with or without an error.
\* The callback has no await: it runs to its end before another one starts.
Invoke(err, e) ==
  /\ up /\ ~Running
  /\ Len(calls) < MaxCalls
  /\ calls' = Append(calls, [ev |-> e, error |-> err, pc |-> "l142",
                             user |-> 0, amount |-> 0,
                             key |-> 0, buried |-> FALSE])
  /\ UNCHANGED <<ethVars, up, crashes, minaPrivateKey, minaVars, protokitVars>>

\* line 142: if (error) console.error(error);   (no return)
CheckError ==
  /\ Running /\ Cur.pc = "l142"
  /\ SetCur([Cur EXCEPT !.pc = "l143"])
  /\ UNCHANGED <<ethVars, up, crashes, minaPrivateKey, minaVars, protokitVars>>

\* lines 143-144: const { user, amount } = event.returnValues; console.log(...)
Destructure ==
  /\ Running /\ Cur.pc = "l143" /\ Cur.ev # NoEvent
  /\ SetCur([Cur EXCEPT !.pc = "l146", !.user = ethLog[Cur.ev].user,
                        !.amount = ethLog[Cur.ev].amount])
  /\ UNCHANGED <<ethVars, up, crashes, minaPrivateKey, minaVars, protokitVars>>

\* line 143 without an event: a TypeError rejects the promise of the async
\* callback and nothing handles it.  What Node.js does with an unhandled
\* rejection is its mode: it ends the process (the default of v16+, line 29)
\* or it warns and goes on.
DestructureThrows ==
  /\ Running /\ Cur.pc = "l143" /\ Cur.ev = NoEvent
  /\ SetCur([Cur EXCEPT !.pc = "threw"])
  /\ \E survives \in BOOLEAN : up' = survives
  /\ UNCHANGED <<ethVars, crashes, minaPrivateKey, minaVars, protokitVars>>

\* Whether requiredSourceConfirmations blocks bury the block of event e now.
Buried(e) == height >= ethLog[e].block + requiredSourceConfirmations

\* The arguments of Mina.Proof.create(minaPrivateKey, [amount]) at line 146.
ProofInputs(key, amount) == <<key, amount>>

\* line 146: const proof = Mina.Proof.create(minaPrivateKey, [amount]);
Prove ==
  /\ Running /\ Cur.pc = "l146"
  /\ SetCur([Cur EXCEPT !.pc = "l147", !.key = minaPrivateKey,
                        !.buried = Buried(Cur.ev)])
  /\ UNCHANGED <<ethVars, up, crashes, minaPrivateKey, minaVars, protokitVars>>

\* The transactions a callback invocation has sent to the zkApp when it is at
\* position pc: none at any position.  Line 147 only writes a log line and the
\* callback ends at line 148; the proof is a local that nothing reads.
SentToMina(c) == {}

\* line 147: console.log("Submitting proof to Mina...");
LogSubmitting ==
  /\ Running /\ Cur.pc = "l147"
  /\ SetCur([Cur EXCEPT !.pc = "done"])
  /\ UNCHANGED <<ethVars, up, crashes, minaPrivateKey, minaVars, protokitVars>>

\* The process is killed; the locals of a running callback are lost.
Crash ==
  /\ up
  /\ crashes < MaxCrashes
  /\ crashes' = crashes + 1
  /\ up' = FALSE
  /\ calls' = IF Running THEN [calls EXCEPT ![Len(calls)].pc = "killed"] ELSE calls
  /\ UNCHANGED <<ethVars, minaPrivateKey, minaVars, protokitVars>>

\* node relayer.js: lines 129-139 run again, line 137 draws a new key.
Restart(key) ==
  /\ ~up
  /\ up' = TRUE
  /\ minaPrivateKey' = key
  /\ UNCHANGED <<ethVars, crashes, calls, minaVars, protokitVars>>

\* ------------------------------------------- Mina zkApp: PrivacyBridge

Proofs == [valid : BOOLEAN]
Signatures == [signer : Keys, msg : Amounts]

\* proof.verify()
ProofVerify(proof) == proof.valid

\* signature.verify(publicKey, [amount])
SignatureVerify(signature, publicKey, amount) ==
  signature.signer = publicKey /\ signature.msg = amount

\* Poseidon.hash([currentHash, amount]), as a collision-free function: the
\* value is the list of what was absorbed; <<>> stands for Field(0).
PoseidonHash(currentHash, amount) == Append(currentHash, amount)

\* withdraw that also refuses a proof it has accepted before.
WithdrawAcceptedOnce(proof) ==
  /\ ProofVerify(proof)
  /\ \A i \in DOMAIN withdrawCalls :
       ~(withdrawCalls[i].proof = proof /\ withdrawCalls[i].ok)

\* withdraw without the assertion of line 74.
WithdrawAcceptedNoAssert(proof) == TRUE

\* proof.verify().assertTrue(): the transaction goes through iff the assertion holds.
WithdrawAccepted(proof) == ProofVerify(proof)

\* @method async withdraw(proof: Proof)
Withdraw(proof) ==
  /\ Len(withdrawCalls) < MaxWithdraws
  /\ withdrawCalls' = Append(withdrawCalls,
                             [proof |-> proof, ok |-> WithdrawAccepted(proof)])
  /\ UNCHANGED <<ethVars, relayerVars, balanceHash, protokitVars>>

\* deposit without the assertion of line 67.
MinaDepositAcceptedNoAssert(publicKey, amount, signature) == TRUE

\* signature.verify(publicKey, [amount]).assertTrue()
MinaDepositAccepted(publicKey, amount, signature) ==
  SignatureVerify(signature, publicKey, amount)

\* @method async deposit(publicKey, amount, signature)
MinaDeposit(publicKey, amount, signature) ==
  /\ MinaDepositAccepted(publicKey, amount, signature)
  /\ Len(balanceHash) < MaxMinaDeposits
  /\ balanceHash' = PoseidonHash(balanceHash, amount)
  /\ UNCHANGED <<ethVars, relayerVars, withdrawCalls, protokitVars>>

MinaDepositFails(publicKey, amount, signature) ==
  /\ ~MinaDepositAccepted(publicKey, amount, signature)
  /\ UNCHANGED vars

\* ------------------- PrivateVoting: src/contracts/ageVerification.js

\* initState: { totalVotes: 0 }
InitTotalVotes == 0

\* state.totalVotes += 1
VoteCount(n) == n + 1

\* vote that counts the candidateId instead of one vote.
VoteExecuteByCandidate(candidateId) ==
  /\ Len(voteLog) < MaxVotes
  /\ totalVotes' = totalVotes + candidateId
  /\ voteLog' = Append(voteLog, candidateId)
  /\ UNCHANGED <<ethVars, relayerVars, minaVars, circuitVars, formVars>>

\* methods.vote.execute(state, { candidateId }): lines 27-31
VoteExecute(candidateId) ==
  /\ Len(voteLog) < MaxVotes
  /\ totalVotes' = VoteCount(totalVotes)
  /\ voteLog' = Append(voteLog, candidateId)
  /\ UNCHANGED <<ethVars, relayerVars, minaVars, circuitVars, formVars>>

\* ------------------------- AgeVerification: src/contracts/ageVerification.js

\* verify with a strict comparison.
VerifyStrict(age, minAge) == age > minAge

\* verify({ age, minAge }): return age >= minAge;
Verify(age, minAge) == age >= minAge

NoVerifyCall == [called |-> FALSE, age |-> NoEvent, minAge |-> NoEvent, result |-> FALSE]

\* A call AgeVerificationCircuit.verify({ age, minAge }).
AgeVerify(age, minAge) ==
  /\ verifyCall' = [called |-> TRUE, age |-> age, minAge |-> minAge,
                    result |-> Verify(age, minAge)]
  /\ UNCHANGED <<ethVars, relayerVars, minaVars, votingVars, formVars>>

\* ------------------------------------ VoteForm: src/protokit.config.js

\* useState(''), 'Vote successfully registered!' and `Error: ${error.message}`
NoStatus == [kind |-> "none", message |-> NoEvent]
SuccessStatus == [kind |-> "ok", message |-> NoEvent]
ErrorStatus(message) == [kind |-> "error", message |-> message]

\* What an invocation of handleVote that has ended passed to setStatus.
StatusOf(f) ==
  IF f.result = "ok" THEN SuccessStatus ELSE ErrorStatus(f.message)

\* handleVote that reports success before the await of line 26.
HandleVoteStartOptimistic(candidateId) ==
  /\ Len(forms) < MaxForms
  /\ forms' = Append(forms, [candidateId |-> candidateId, pc |-> "l26",
                             result |-> "pending", message |-> NoEvent])
  /\ status' = SuccessStatus
  /\ UNCHANGED <<ethVars, relayerVars, minaVars, circuitVars, votingVars, completions>>

\* A click: lines 24-26 up to the await.  loadContract returned and
\* contract.vote(candidateId) was called; its promise is pending.
HandleVoteStart(candidateId) ==
  /\ Len(forms) < MaxForms
  /\ forms' = Append(forms, [candidateId |-> candidateId, pc |-> "l26",
                             result |-> "pending", message |-> NoEvent])
  /\ UNCHANGED <<ethVars, relayerVars, minaVars, circuitVars, votingVars, status, completions>>

\* A click where Mina.loadContract (line 25) throws: line 29 runs at once.
HandleVoteLoadThrows(candidateId, message) ==
  /\ Len(forms) < MaxForms
  /\ forms' = Append(forms, [candidateId |-> candidateId, pc |-> "done",
                             result |-> "error", message |-> message])
  /\ status' = ErrorStatus(message)
  /\ completions' = Append(completions, Len(forms) + 1)
  /\ UNCHANGED <<ethVars, relayerVars, minaVars, circuitVars, votingVars>>

\* The call contract.vote(candidateId) of invocation i runs the vote method.
VoteCallExecutes(i) ==
  /\ i \in DOMAIN forms /\ forms[i].pc = "l26"
  /\ Len(voteLog) < MaxVotes
  /\ totalVotes' = VoteCount(totalVotes)
  /\ voteLog' = Append(voteLog, forms[i].candidateId)
  /\ forms' = [forms EXCEPT ![i].pc = "executed"]
  /\ UNCHANGED <<ethVars, relayerVars, minaVars, circuitVars, status, completions>>

\* The await of line 26 returns in invocation i: line 27.
AwaitReturns(i) ==
  /\ i \in DOMAIN forms /\ forms[i].pc = "executed"
  /\ forms' = [forms EXCEPT ![i].pc = "done", ![i].result = "ok"]
  /\ status' = SuccessStatus
  /\ completions' = Append(completions, i)
  /\ UNCHANGED <<ethVars, relayerVars, minaVars, circuitVars, votingVars>>

\* The await of line 26 throws in invocation i (the vote was refused): line 29.
AwaitThrows(i, message) ==
  /\ i \in DOMAIN forms /\ forms[i].pc = "l26"
  /\ forms' = [forms EXCEPT ![i].pc = "done", ![i].result = "error",
                              ![i].message = message]
  /\ status' = ErrorStatus(message)
  /\ completions' = Append(completions, i)
  /\ UNCHANGED <<ethVars, relayerVars, minaVars, circuitVars, votingVars>>

\* ------------------------------------------------------- specification

Init ==
  /\ deposits = [u \in Users |-> 0]
  /\ ethLog = <<>>
  /\ height = 0
  /\ up = TRUE
  /\ crashes = 0
  /\ minaPrivateKey \in Keys
  /\ calls = <<>>
  /\ balanceHash = <<>>
  /\ withdrawCalls = <<>>
  /\ totalVotes = InitTotalVotes
  /\ voteLog = <<>>
  /\ forms = <<>>
  /\ status = NoStatus
  /\ completions = <<>>
  /\ verifyCall = NoVerifyCall

EthNext ==
  \/ \E u \in Users, v \in Amounts : EthDeposit(u, v)
  \/ \E u \in Users, v \in Amounts : EthDepositReverts(u, v)
  \/ MineBlock
  \/ \E a \in 0..MaxHeight : Reorg(a)

CallbackStep ==
  \/ CheckError
  \/ Destructure
  \/ DestructureThrows
  \/ Prove
  \/ LogSubmitting

RelayerNext ==
  \/ \E err \in BOOLEAN, e \in {NoEvent} \cup DOMAIN ethLog : Invoke(err, e)
  \/ CallbackStep
  \/ Crash
  \/ \E k \in Keys : Restart(k)

MinaNext ==
  \/ \E p \in Proofs : Withdraw(p)
  \/ \E k \in Keys, a \in Amounts, s \in Signatures : MinaDeposit(k, a, s)
  \/ \E k \in Keys, a \in Amounts, s \in Signatures : MinaDepositFails(k, a, s)

VotingNext == \E cid \in Candidates : VoteExecute(cid)

FormNext ==
  \/ \E cid \in Candidates : HandleVoteStart(cid)
  \/ \E cid \in Candidates, m \in Messages : HandleVoteLoadThrows(cid, m)
  \/ \E i \in 1..MaxForms : VoteCallExecutes(i)
  \/ \E i \in 1..MaxForms : AwaitReturns(i)
  \/ \E i \in 1..MaxForms, m \in Messages : AwaitThrows(i, m)

CircuitNext == \E age \in Ages, minAge \in Ages : AgeVerify(age, minAge)

Next == EthNext \/ RelayerNext \/ MinaNext \/ VotingNext \/ FormNext \/ CircuitNext

Spec == Init /\ [][Next]_vars

\* The two chains share no state and the relayer sends nothing to the zkApp
\* (SentToMina), so the source side with the relayer and the zkApp are also
\* checked apart.
RelayNext == EthNext \/ RelayerNext
RelaySpec == Init /\ [][RelayNext]_vars

MinaSpec == Init /\ [][MinaNext]_vars

\* The PrivateVoting program alone.
VotingSpec == Init /\ [][VotingNext]_vars

\* The vote form in front of the PrivateVoting program, which other clients
\* call as well.
FormSpec == Init /\ [][FormNext \/ VotingNext]_vars

\* The age verification circuit, called with every pair of inputs.
CircuitSpec == Init /\ [][CircuitNext]_vars

\* The Ethereum contract on its chain, without the relayer.
EthSpec == Init /\ [][EthNext]_vars

\* The scheduling of Node.js: a callback that was invoked runs on to its end
\* while the process lives; and a process that was killed or that ended is
\* started again (the recovery claims suppose kills followed by restarts, and
\* kills are finitely many: MaxCrashes).  Deliveries, blocks, reorgs and kills
\* are the environment's and carry no fairness.
FairSpec ==
  RelaySpec /\ WF_vars(CallbackStep) /\ WF_vars(\E k \in Keys : Restart(k))

\* --------------------------------------------- the relayer's jobs, as run

\* The callback invocation c has passed lines 143-144 (it holds user, amount).
Observed(c) == c.user # 0

\* The callback invocation c has passed line 146 (Mina.Proof.create returned).
HasProof(c) == c.key # 0

\* The work the relayer did for the deposit event e: one "job" per invocation
\* that read the event, one proof generation per invocation that passed line 146.
JobsOf(e) == {i \in DOMAIN calls : calls[i].ev = e /\ Observed(calls[i])}
ProofsOf(e) == {i \in DOMAIN calls : calls[i].ev = e /\ HasProof(calls[i])}

\* The state of the job of event e in the words of the RelayJob lifecycle.  The
\* callback has no branch that confirms, fails or invalidates anything.
JobState(e) ==
  IF ProofsOf(e) # {} THEN "ProofReady"
  ELSE IF JobsOf(e) # {} THEN "Observed"
  ELSE "None"

\* The relayer has called withdraw() on the zkApp for event e.
Submitted(e) == \E i \in JobsOf(e) : SentToMina(calls[i]) # {}

\* The delivery of invocation c is a bad one: an error, or no event payload.
BadDelivery(c) == c.error \/ c.ev = NoEvent

\* The invocations whose proof generation is in progress: they stand at the
\* call of Mina.Proof.create (line 146) in a live process.
InFlight == {i \in DOMAIN calls : up /\ calls[i].pc = "l146"}

\* One transaction that calls PrivacyBridge.deposit with these arguments,
\* whatever its outcome.
MinaDepositCall(publicKey, amount, signature) ==
  \/ MinaDeposit(publicKey, amount, signature)
  \/ MinaDepositFails(publicKey, amount, signature)

\* The sum of the amounts of the Deposit(u, amount) events of the log that are
\* on the chain (a reorganization takes an event and its transaction off it).
RECURSIVE EmittedSum(_, _)
EmittedSum(log, u) ==
  IF log = <<>> THEN 0
  ELSE (IF Head(log).user = u /\ ~Head(log).removed THEN Head(log).amount ELSE 0)
       + EmittedSum(Tail(log), u)

\* One transaction that calls deposit() with msg.sender = sender and
\* msg.value = value, whatever its outcome.
EthDepositCall(sender, value) ==
  EthDeposit(sender, value) \/ EthDepositReverts(sender, value)

\* ------------------------------------------------------------- claims

\* C1: idempotent ingestion: whatever Deposit events were delivered, each
\* deposit identity that was delivered has exactly one job, and at most one
\* proof generation was started for it.
C1_IdempotentIngestion ==
  \A e \in DOMAIN ethLog :
    /\ JobsOf(e) # {} => Cardinality(JobsOf(e)) = 1
    /\ Cardinality(ProofsOf(e)) <= 1

\* C3: reorg safety: a delivered deposit whose block a reorg removed before
\* requiredSourceConfirmations blocks buried it leads to its job being
\* Invalidated (and the job is never Confirmed).
C3_ReorgSafety ==
  \A e \in 1..MaxEvents :
    /\ (e \in DOMAIN ethLog /\ ethLog[e].early /\ JobsOf(e) # {})
         ~> (JobState(e) = "Invalidated")
    /\ [](JobState(e) # "Confirmed")

\* C4: confirmation gating: every proof generation was started at a source
\* height >= sourceBlockHeight + requiredSourceConfirmations.
C4_ConfirmationGating ==
  \A i \in DOMAIN calls : HasProof(calls[i]) => calls[i].buried

\* C5: crash-recovery liveness: every job eventually reaches Confirmed,
\* Failed or Invalidated, wherever the process is killed and restarted.
C5_CrashRecoveryLiveness ==
  \A e \in 1..MaxEvents :
    (JobsOf(e) # {}) ~> (JobState(e) \in {"Confirmed", "Failed", "Invalidated"})

\* C6: end-to-end relay: every Deposit event delivered to the relayer is
\* eventually followed by the relayer calling withdraw() on the zkApp.
C6_EndToEndRelay ==
  \A e \in 1..MaxEvents : (JobsOf(e) # {}) ~> Submitted(e)

\* C9: withdrawals only after proof verification: every withdraw transaction
\* that went through carried a proof whose verify() is true.
C9_WithdrawOnlyVerified ==
  \A i \in DOMAIN withdrawCalls :
    withdrawCalls[i].ok => ProofVerify(withdrawCalls[i].proof)

\* C9 witness: a withdraw with a proof that does not verify was sent and
\* failed, and one with a proof that verifies went through.
C9_Witness ==
  /\ \E i \in DOMAIN withdrawCalls :
       ~ProofVerify(withdrawCalls[i].proof) /\ ~withdrawCalls[i].ok
  /\ \E i \in DOMAIN withdrawCalls : withdrawCalls[i].ok

\* C10: deterministic proof inputs: two proof generations for the same
\* DepositEvent (in one run of the process or in two) got identical inputs.
C10_DeterministicProofInputs ==
  \A i, j \in DOMAIN calls :
    (HasProof(calls[i]) /\ HasProof(calls[j]) /\ calls[i].ev = calls[j].ev)
      => ProofInputs(calls[i].key, calls[i].amount)
           = ProofInputs(calls[j].key, calls[j].amount)

\* C11: bad deliveries are skipped: an invocation with an error or without an
\* event payload generates no proof and does not fail (its promise is not
\* rejected, the process is not ended by it).
C11_BadDeliveriesSkipped ==
  \A i \in DOMAIN calls :
    BadDelivery(calls[i]) => ~HasProof(calls[i]) /\ calls[i].pc # "threw"

C14_EthDepositAcceptance ==
  [][\A u \in Users, v \in Amounts :
       EthDepositCall(u, v) =>
         /\ v = 0 => deposits' = deposits /\ ethLog' = ethLog
         /\ v > 0 =>
              /\ deposits'[u] = deposits[u] + v
              /\ \A w \in Users \ {u} : deposits'[w] = deposits[w]
              /\ Len(ethLog') = Len(ethLog) + 1
              /\ SubSeq(ethLog', 1, Len(ethLog)) = ethLog
              /\ ethLog'[Len(ethLog')].user = u
              /\ ethLog'[Len(ethLog')].amount = v]_vars

\* C14 witness: two accepted deposits of different senders are in the log and
\* each sender's entry holds exactly the own amount.
C14_Witness ==
  /\ Len(ethLog) = 2
  /\ ethLog[1].user # ethLog[2].user
  /\ ~ethLog[1].removed /\ ~ethLog[2].removed
  /\ deposits[ethLog[1].user] = ethLog[1].amount
  /\ deposits[ethLog[2].user] = ethLog[2].amount

\* C15: Mina deposit is a guarded hash-chain update: a deposit call whose
\* signature verifies for publicKey over [amount] sets balanceHash to
\* Poseidon.hash([previous balanceHash, amount]); one whose signature does not
\* verify leaves balanceHash unchanged; and balanceHash changes in no other way.
C15_GuardedHashChain ==
  [][/\ \A k \in Keys, a \in Amounts, sig \in Signatures :
          MinaDepositCall(k, a, sig) =>
            /\ SignatureVerify(sig, k, a)
                 => balanceHash' = PoseidonHash(balanceHash, a)
            /\ ~SignatureVerify(sig, k, a) => balanceHash' = balanceHash
     /\ balanceHash' # balanceHash =>
          \E k \in Keys, a \in Amounts, sig \in Signatures :
            /\ SignatureVerify(sig, k, a)
            /\ balanceHash' = PoseidonHash(balanceHash, a)]_vars

\* C15 witness: two accepted deposits were chained onto the initial hash.
C15_Witness ==
  \E a, b \in Amounts :
    balanceHash = PoseidonHash(PoseidonHash(<<>>, a), b)

\* C16: locked funds match emitted events: deposits[u] is the sum of the
\* amounts of the Deposit(u, amount) events on the chain, every emitted amount
\* is > 0, and no step other than a chain reorganization (which is no
\* operation of the contract) decreases any deposits[u].
C16_LockedFundsMatchEvents ==
  /\ [](\A u \in Users : deposits[u] = EmittedSum(ethLog, u))
  /\ [](\A i \in DOMAIN ethLog : ethLog[i].amount > 0)
  /\ [][(~\E a \in 0..MaxHeight : Reorg(a))
          => \A u \in Users : deposits'[u] >= deposits[u]]_vars

\* C16 witness: one address has deposited twice and holds the sum.
C16_Witness ==
  /\ Len(ethLog) = 2
  /\ ethLog[1].user = ethLog[2].user
  /\ ~ethLog[1].removed /\ ~ethLog[2].removed
  /\ deposits[ethLog[1].user] = ethLog[1].amount + ethLog[2].amount

\* C17: withdraw has no state effect: a withdraw transaction leaves
\* balanceHash unchanged, and a proof that was accepted once is accepted by
\* every later withdraw as well.
C17_WithdrawNoStateEffect ==
  /\ [][Len(withdrawCalls') > Len(withdrawCalls) => balanceHash' = balanceHash]_vars
  /\ [](\A i, j \in DOMAIN withdrawCalls :
          (i < j /\ withdrawCalls[i].ok
             /\ withdrawCalls[j].proof = withdrawCalls[i].proof)
            => withdrawCalls[j].ok)

\* C17 witness: the same proof went through in every one of MaxWithdraws
\* withdraw transactions, after a deposit had set balanceHash.
C17_Witness ==
  /\ Len(withdrawCalls) = MaxWithdraws
  /\ \A i \in DOMAIN withdrawCalls :
       withdrawCalls[i].ok /\ withdrawCalls[i].proof = withdrawCalls[1].proof
  /\ balanceHash # <<>>

\* C18: vote counting: totalVotes starts at 0 and equals the number of
\* executions of vote so far, whatever the candidateId values; one execution
\* adds exactly 1 to totalVotes and changes nothing else of the state.
C18_VoteCounting ==
  /\ [](totalVotes = Len(voteLog))
  /\ [][Len(voteLog') = Len(voteLog) + 1
          => totalVotes' = totalVotes + 1
             /\ UNCHANGED <<ethVars, relayerVars, minaVars, circuitVars, formVars>>]_vars

\* C18 witness: MaxVotes votes were executed, with a candidateId repeated and
\* another one differing, and totalVotes is MaxVotes.
C18_Witness ==
  /\ Len(voteLog) = MaxVotes
  /\ \E i, j \in DOMAIN voteLog : i # j /\ voteLog[i] = voteLog[j]
  /\ \E i, j \in DOMAIN voteLog : voteLog[i] # voteLog[j]
  /\ totalVotes = MaxVotes

\* C19: the vote form's status reflects the outcome of the call: status is
\* the success text only through an invocation whose contract.vote call was
\* executed and returned, it is the error text of what loadContract or vote
\* threw otherwise, and with several invocations in flight it is the status of
\* the invocation that completed last; before any completes it is ''.
C19_StatusReflectsOutcome ==
  /\ [](IF completions = <<>> THEN status = NoStatus
        ELSE status = StatusOf(forms[completions[Len(completions)]]))
  /\ [][status' # status =>
          /\ Len(completions') = Len(completions) + 1
          /\ LET i == completions'[Len(completions')]
             IN IF status' = SuccessStatus
                THEN i \in DOMAIN forms /\ forms[i].pc = "executed"
                ELSE status' = ErrorStatus(forms'[i].message)
                     /\ (i \in DOMAIN forms => forms[i].pc = "l26")]_vars

\* C19 witness: two invocations were in flight, the one started last completed
\* first with an error, and the status shown is the success of the first one.
C19_Witness ==
  /\ completions = <<2, 1>>
  /\ forms[2].result = "error"
  /\ forms[1].result = "ok"
  /\ status = SuccessStatus

\* C20: for every pair of integers (age, minAge), verify returns true if and
\* only if age is at least minAge; equal values are accepted.
C20_AgeVerification ==
  verifyCall.called =>
    /\ verifyCall.result = TRUE <=> ~(verifyCall.age < verifyCall.minAge)
    /\ (verifyCall.age = verifyCall.minAge => verifyCall.result = TRUE)

\* C20 witness: verify was called with age equal to minAge and returned true.
C20_Witness ==
  /\ verifyCall.called
  /\ verifyCall.age = verifyCall.minAge
  /\ verifyCall.age # 0
  /\ verifyCall.result = TRUE

====
